---------------------------- MODULE Spec2Model ----------------------------
(***************************************************************************)
(* Model of SharedPtrMain.cpp: the ownership ledger                        *)
(* (SharedPtrDataManagementTable) and the shared handle (SharedPtr<DataT>).*)
(*                                                                         *)
(* Spec     : one thread; every handle operation is one atomic action.     *)
(* SpecConc : several threads; every call on the unordered_map and every   *)
(*            access of an atomic counter is one step, so the steps of     *)
(*            addData / removeData of different threads interleave.        *)
(***************************************************************************)
EXTENDS Integers, Sequences, FiniteSets, TLC

(* ------------------------------ bounds --------------------------------- *)
NumHandles == 3
NumObjs == 2
NumThreads == 2
MaxOps == 2
NumScenBase == 4
MaxCount == 4

Handles == 1..NumHandles
Objs == 1..NumObjs
Threads == 1..NumThreads
\* the handle variables of the scoped programs of SpecScen: one
\* SharedPtr<Derived> and NumScenBase SharedPtr<Base>
ScenHandles == {2} \cup {2 * i - 1 : i \in 1..NumScenBase}
\* the objects the scoped programs of SpecScen allocate
ScenObjs == {1}

\* nullptr
Null == 0
\* "no handle" in the record of the last operation
NoHandle == 0

\* the element types of the demo: class Base, class Derived : public Base
Types == {"Base", "Derived"}

\* DataT of each handle variable: the variables of a program have fixed types;
\* the odd ones are SharedPtr<Base>, the even ones SharedPtr<Derived>
elemType(h) == IF h % 2 = 0 THEN "Derived" ELSE "Base"

\* std::is_base_of_v<B, D>
IsBaseOf(B, D) == B = D \/ (B = "Base" /\ D = "Derived")

VARIABLES
    m_data,             \* handle -> its raw target (SharedPtr::m_data), Null if none
    live,               \* handle -> the handle object exists (constructed, not destroyed)
    m_managementTable,  \* the ledger: a function from the registered identities to counts
    dynType,            \* object -> "none" (not allocated) or its most derived type
    deleted,            \* object -> how many times delete was applied to it
    op,                 \* the operation performed by the last step of Spec
    log,                \* the operations so far, while they follow a scenario script
    pc,                 \* SpecConc: thread -> position inside its current operation
    cur,                \* SpecConc: thread -> the operation it is running
    hist,               \* SpecConc: thread -> the operations it completed
    table0              \* SpecConc: the ledger at the start

hvars == <<m_data, live>>
ovars == <<dynType, deleted>>
cvars == <<pc, cur, hist, table0>>
vars == <<m_data, live, m_managementTable, dynType, deleted, op, log,
          pc, cur, hist, table0>>

(* ------------------------------ ledger --------------------------------- *)

\* convertToVoidPtr: throws on null, otherwise the address itself
convertToVoidPtr_NoCheck(data) == [threw |-> FALSE, ptr |-> data]

convertToVoidPtr(data) == [threw |-> data = Null, ptr |-> data]

\* unordered_map::emplace(key, 1): no effect when the key is present
emplace(tbl, key) ==
    IF key \in DOMAIN tbl THEN tbl
    ELSE [k \in DOMAIN tbl \cup {key} |-> IF k = key THEN 1 ELSE tbl[k]]

\* unordered_map::erase
erase(tbl, key) == [k \in DOMAIN tbl \ {key} |-> tbl[k]]

\* findItr->second.load() > 1 on a std::size_t; a count is kept as the
\* two's-complement reading of its value, so a negative one is above 1
GreaterThanOne(c) == c > 1 \/ c < 0

\* SharedPtrDataManagementTable::addData, run without interruption
addData_NoIncrement(tbl, data) ==
    LET v == convertToVoidPtr(data) IN
    IF v.threw THEN [threw |-> TRUE, table |-> tbl]
    ELSE [threw |-> FALSE, table |-> emplace(tbl, v.ptr)]

addData(tbl, data) ==
    LET v == convertToVoidPtr(data) IN
    IF v.threw THEN [threw |-> TRUE, table |-> tbl]
    ELSE IF v.ptr \notin DOMAIN tbl
         THEN [threw |-> FALSE, table |-> emplace(tbl, v.ptr)]
         ELSE [threw |-> FALSE, table |-> [tbl EXCEPT ![v.ptr] = @ + 1]]

\* SharedPtrDataManagementTable::removeData, run without interruption
removeData_NoErase(tbl, data) ==
    LET v == convertToVoidPtr(data) IN
    IF v.threw \/ v.ptr \notin DOMAIN tbl
    THEN [threw |-> TRUE, last |-> FALSE, table |-> tbl]
    ELSE [threw |-> FALSE, last |-> ~GreaterThanOne(tbl[v.ptr]),
          table |-> [tbl EXCEPT ![v.ptr] = @ - 1]]

removeData(tbl, data) ==
    LET v == convertToVoidPtr(data) IN
    IF v.threw \/ v.ptr \notin DOMAIN tbl
    THEN [threw |-> TRUE, last |-> FALSE, table |-> tbl]
    ELSE IF GreaterThanOne(tbl[v.ptr])
         THEN [threw |-> FALSE, last |-> FALSE, table |-> [tbl EXCEPT ![v.ptr] = @ - 1]]
         ELSE [threw |-> FALSE, last |-> TRUE, table |-> erase(tbl, v.ptr)]

\* SharedPtrDataManagementTable::getCount on a non-null identity
getCount(tbl, data) == IF data \in DOMAIN tbl THEN tbl[data] ELSE 0

\* SharedPtrDataManagementTable::getCount as called: the argument goes through
\* convertToVoidPtr before the lookup
ledgerGetCount(tbl, data) ==
    LET v == convertToVoidPtr(data) IN
    IF v.threw THEN [threw |-> TRUE, ret |-> 0]
    ELSE [threw |-> FALSE, ret |-> getCount(tbl, v.ptr)]

(* ------------------------------ handle --------------------------------- *)

\* SharedPtr::releaseData: the new m_data, the ledger, the object deleted (or Null)
releaseData_AlwaysDelete(tbl, data, deleteIfLast) ==
    IF data = Null
    THEN [threw |-> FALSE, data |-> Null, table |-> tbl, del |-> Null]
    ELSE LET r == removeData(tbl, data) IN
         IF r.threw
         THEN [threw |-> TRUE, data |-> data, table |-> tbl, del |-> Null]
         ELSE [threw |-> FALSE, data |-> Null, table |-> r.table,
               del |-> IF r.last THEN data ELSE Null]

releaseData(tbl, data, deleteIfLast) ==
    IF data = Null
    THEN [threw |-> FALSE, data |-> Null, table |-> tbl, del |-> Null]
    ELSE LET r == removeData(tbl, data) IN
         IF r.threw
         THEN [threw |-> TRUE, data |-> data, table |-> tbl, del |-> Null]
         ELSE [threw |-> FALSE, data |-> Null, table |-> r.table,
               del |-> IF r.last /\ deleteIfLast THEN data ELSE Null]

\* delete m_data
Delete_Nothing(del, x) == del

Delete(del, x) == IF x = Null THEN del ELSE [del EXCEPT ![x] = @ + 1]

\* SharedPtr::throwIfInvalidAccess, called by operator-> and operator*: TRUE
\* when it throws
throwIfInvalidAccess_Never(data) == FALSE

throwIfInvalidAccess(data) == data = Null

\* SharedPtr::getUseCount
getUseCount(tbl, data) == IF data = Null THEN 0 ELSE ledgerGetCount(tbl, data).ret

\* explicit SharedPtr(DataT* data): keeps the pointer, registers it when non-null
ctorRaw_NoRegister(tbl, data) == [data |-> data, table |-> tbl]

ctorRaw(tbl, data) ==
    [data |-> data,
     table |-> IF data # Null THEN addData(tbl, data).table ELSE tbl]

\* SharedPtr(DataU* data): static_cast when DataU derives from DataT (or is it),
\* dynamic_cast otherwise; dyn is the dynamic type of *data
castRaw_ExactType(T, U, data, dyn) ==
    IF data # Null /\ dyn = T THEN data ELSE Null

castRaw_Static(T, U, data, dyn) == data

castRaw(T, U, data, dyn) ==
    IF IsBaseOf(T, U) THEN data
    ELSE IF data # Null /\ IsBaseOf(T, dyn) THEN data ELSE Null

\* assignSelf's test: if constexpr (is_same_v<DataT, DataU>) if (this == &other)
isSelfAssign_Never(d, s, T, U) == FALSE

isSelfAssign(d, s, T, U) == T = U /\ d = s

\* assignSelfContinuation(const SharedPtr<DataU>&): registers the adopted target
assignSelfContinuationCopy_NoRegister(tbl, data) == [threw |-> data = Null, table |-> tbl]

assignSelfContinuationCopy(tbl, data) == addData(tbl, data)

\* assignSelfContinuation(SharedPtr<DataU>&& other): other.m_data = nullptr
assignSelfContinuationMove_KeepSource(md, s) == md

assignSelfContinuationMove(md, s) == [md EXCEPT ![s] = Null]

(* --------------------------- initial state ----------------------------- *)

\* the record of an operation: its kind, the handle it acts on, its source
\* handle, whether it threw, its raw-pointer argument, the value it returned
NoOp == [kind |-> "init", dst |-> NoHandle, src |-> NoHandle, threw |-> FALSE,
         raw |-> Null, ret |-> 0]
Op(k, d, s, t) == [kind |-> k, dst |-> d, src |-> s, threw |-> t, raw |-> Null, ret |-> 0]
OpRaw(k, d, x) == [kind |-> k, dst |-> d, src |-> NoHandle, threw |-> FALSE,
                   raw |-> x, ret |-> 0]

EmptyTable == [k \in {} |-> 0]

Idle == [kind |-> "idle", h |-> NoHandle, data |-> Null, itr |-> "none", last |-> FALSE]

Init ==
    /\ m_data = [h \in Handles |-> Null]
    /\ live = [h \in Handles |-> FALSE]
    /\ m_managementTable = EmptyTable
    /\ dynType = [x \in Objs |-> "none"]
    /\ deleted = [x \in Objs |-> 0]
    /\ op = NoOp
    /\ log = <<>>
    /\ pc = [t \in Threads |-> "idle"]
    /\ cur = [t \in Threads |-> Idle]
    /\ hist = [t \in Threads |-> <<>>]
    /\ table0 = EmptyTable

\* the live, non-null handles whose target is x
Owners(x) == {h \in Handles : live[h] /\ m_data[h] = x}

\* an object that was allocated and not deleted: a raw pointer to it is valid
Alive(x) == dynType[x] # "none" /\ deleted[x] = 0

(* --------------------------- scenario scripts -------------------------- *)
(* Straight-line programs in the style of main (lines 376-454). log records *)
(* the operations performed so far for as long as they follow one of the    *)
(* scripts below, and is Off afterwards.                                    *)

\* SharedPtr<Base> A = MakeSharedPtr<Base>(...); SharedPtr<Base> B{A};
\* SharedPtr<Base> C{std::move(B)}; ~A; ~C
\* with A, B, C the handles 1, 3, 5 and X the object 1
ScriptCopyMove ==
    << OpRaw("make", 1, 1),
       Op("copyConstruct", 3, 1, FALSE),
       Op("moveConstruct", 5, 3, FALSE),
       Op("destroy", 1, NoHandle, FALSE),
       Op("destroy", 5, NoHandle, FALSE) >>

\* auto d = MakeSharedPtr<Derived>(...); SharedPtr<Base> b; b = <d>;
\* SharedPtr<Base> c1{b}, c2{b}, c3{b};
\* with d, b, c1, c2, c3 the handles 2, 1, 3, 5, 7; assign is the operator=
\* that <d> selects: "convCopyAssign" for b = d (line 411), "convMoveAssign"
\* for b = std::move(d) (line 428)
ScriptUpcast(assign) ==
    << OpRaw("make", 2, 1),
       OpRaw("constructRaw", 1, Null),
       Op(assign, 1, 2, FALSE),
       Op("copyConstruct", 3, 1, FALSE),
       Op("copyConstruct", 5, 1, FALSE),
       Op("copyConstruct", 7, 1, FALSE) >>

\* SharedPtr<Base> a = MakeSharedPtr<Base>(...); SharedPtr<Base> b{&*a};
\* with a, b the handles 1, 3: two handles from the same raw pointer
ScriptRawTwice ==
    << OpRaw("make", 1, 1),
       OpRaw("constructRaw", 3, 1) >>

\* the supertype handle and its three copies
UpcastHandles == {1, 3, 5, 7}

\* a script is a fixed sequence of operations followed by the destructors of
\* the handles of its scope, which run in any order
Scripts ==
    { [head |-> ScriptCopyMove, scope |-> {}],
      [head |-> ScriptRawTwice, scope |-> {1, 3}],
      [head |-> ScriptUpcast("convCopyAssign"), scope |-> UpcastHandles \cup {2}],
      [head |-> ScriptUpcast("convMoveAssign"), scope |-> UpcastHandles \cup {2}] }

Follows(l, sc) ==
    /\ \A i \in 1..Len(l) :
          IF i <= Len(sc.head) THEN l[i] = sc.head[i]
          ELSE l[i].kind = "destroy" /\ l[i].dst \in sc.scope /\ ~l[i].threw

\* the log of a run that left every script
Off == <<NoOp>>

Track(l, o) ==
    IF l # Off /\ \E sc \in Scripts : Follows(Append(l, o), sc)
    THEN Append(l, o)
    ELSE Off

(* ----------------------- single-threaded actions ----------------------- *)

\* Objects that were never allocated are interchangeable: an allocation takes
\* the first free one.
FreeObj(x) == dynType[x] = "none" /\ \A y \in Objs : y < x => dynType[y] # "none"

\* new DataT{...} (MakeSharedPtr, line 286): a fresh object of dynamic type T
New(x, T) ==
    /\ FreeObj(x)
    /\ dynType' = [dynType EXCEPT ![x] = T]
    /\ op' = Op("new", NoHandle, NoHandle, FALSE)
    /\ log' = Track(log, op')
    /\ UNCHANGED <<hvars, m_managementTable, deleted, cvars>>

\* SharedPtr<T>{U* x}, SharedPtr<T>{}, SharedPtr<T>{nullptr}: x is null or a
\* valid pointer of static type U
ConstructRaw(h, U, x) ==
    /\ ~live[h]
    /\ x # Null => Alive(x) /\ IsBaseOf(U, dynType[x])
    /\ LET c == ctorRaw(m_managementTable,
                        castRaw(elemType(h), U, x, IF x = Null THEN "none" ELSE dynType[x])) IN
       /\ m_data' = [m_data EXCEPT ![h] = c.data]
       /\ m_managementTable' = c.table
    /\ live' = [live EXCEPT ![h] = TRUE]
    /\ op' = OpRaw("constructRaw", h, x)
    /\ log' = Track(log, op')
    /\ UNCHANGED <<ovars, cvars>>

\* SharedPtr(const SharedPtr<DataT>& other) : SharedPtr{other.m_data}
CopyConstruct(h, s) ==
    /\ ~live[h] /\ live[s]
    /\ elemType(h) = elemType(s)
    /\ LET c == ctorRaw(m_managementTable, m_data[s]) IN
       /\ m_data' = [m_data EXCEPT ![h] = c.data]
       /\ m_managementTable' = c.table
    /\ live' = [live EXCEPT ![h] = TRUE]
    /\ op' = Op("copyConstruct", h, s, FALSE)
    /\ log' = Track(log, op')
    /\ UNCHANGED <<ovars, cvars>>

\* SharedPtr(SharedPtr<DataT>&& other): takes the pointer, nulls the source
MoveConstruct(h, s) ==
    /\ ~live[h] /\ live[s]
    /\ elemType(h) = elemType(s)
    /\ m_data' = [m_data EXCEPT ![h] = m_data[s], ![s] = Null]
    /\ live' = [live EXCEPT ![h] = TRUE]
    /\ op' = Op("moveConstruct", h, s, FALSE)
    /\ log' = Track(log, op')
    /\ UNCHANGED <<m_managementTable, ovars, cvars>>

\* template <DataU> SharedPtr(const SharedPtr<DataU>& other) : SharedPtr{other.m_data}
\* which delegates to SharedPtr(DataU*) and from there to SharedPtr(DataT*)
convertingCtor(h, s, kind) ==
    /\ ~live[h] /\ live[s]
    /\ elemType(h) # elemType(s)
    /\ LET x == m_data[s]
           c == ctorRaw(m_managementTable,
                        castRaw(elemType(h), elemType(s), x,
                                IF x = Null THEN "none" ELSE dynType[x])) IN
       /\ m_data' = [m_data EXCEPT ![h] = c.data]
       /\ m_managementTable' = c.table
    /\ live' = [live EXCEPT ![h] = TRUE]
    /\ op' = Op(kind, h, s, FALSE)
    /\ log' = Track(log, op')
    /\ UNCHANGED <<ovars, cvars>>

\* SharedPtr<T> h{s} with s a SharedPtr<U> lvalue, U # T
ConvCopyConstruct(h, s) == convertingCtor(h, s, "convCopyConstruct")

\* SharedPtr<T> h{std::move(s)} with s a SharedPtr<U>, U # T: the class declares
\* no constructor taking SharedPtr<DataU>&&, so overload resolution binds the
\* rvalue to the const SharedPtr<DataU>& of the converting copy constructor
ConvMoveConstruct(h, s) == convertingCtor(h, s, "convMoveConstruct")

\* SharedPtr::assignSelf, reached from each of the four operator=
assignSelf(d, s, move, kind) ==
    /\ live[d] /\ live[s]
    /\ IsBaseOf(elemType(d), elemType(s))
    /\ IF isSelfAssign(d, s, elemType(d), elemType(s))
       THEN /\ op' = Op(kind, d, s, FALSE)
            /\ log' = Track(log, op')
            /\ UNCHANGED <<hvars, m_managementTable, ovars, cvars>>
       ELSE LET r == releaseData(m_managementTable, m_data[d], TRUE)
                md1 == [m_data EXCEPT ![d] = r.data]
                md2 == [md1 EXCEPT ![d] = md1[s]]
                a == assignSelfContinuationCopy(r.table, md2[d])
            IN
            IF r.threw
            THEN /\ op' = Op(kind, d, s, TRUE)
                 /\ log' = Track(log, op')
                 /\ UNCHANGED <<hvars, m_managementTable, ovars, cvars>>
            ELSE /\ deleted' = Delete(deleted, r.del)
                 /\ m_data' = IF move THEN assignSelfContinuationMove(md2, s) ELSE md2
                 /\ m_managementTable' = IF move THEN r.table ELSE a.table
                 /\ op' = Op(kind, d, s, ~move /\ a.threw)
                 /\ log' = Track(log, op')
                 /\ UNCHANGED <<live, dynType, cvars>>

\* operator=(const SharedPtr<DataT>&)
CopyAssign(d, s) ==
    /\ elemType(d) = elemType(s)
    /\ assignSelf(d, s, FALSE, "copyAssign")

\* operator=(SharedPtr<DataT>&&)
MoveAssign(d, s) ==
    /\ elemType(d) = elemType(s)
    /\ assignSelf(d, s, TRUE, "moveAssign")

\* template <DataU> operator=(const SharedPtr<DataU>&)
ConvCopyAssign(d, s) ==
    /\ elemType(d) # elemType(s)
    /\ assignSelf(d, s, FALSE, "convCopyAssign")

\* template <DataU> operator=(SharedPtr<DataU>&&)
ConvMoveAssign(d, s) ==
    /\ elemType(d) # elemType(s)
    /\ assignSelf(d, s, TRUE, "convMoveAssign")

\* void release(): releaseData(false)
Release(h) ==
    /\ live[h]
    /\ LET r == releaseData(m_managementTable, m_data[h], FALSE) IN
       /\ m_data' = [m_data EXCEPT ![h] = r.data]
       /\ m_managementTable' = r.table
       /\ deleted' = Delete(deleted, r.del)
       /\ op' = Op("release", h, NoHandle, r.threw)
       /\ log' = Track(log, op')
    /\ UNCHANGED <<live, dynType, cvars>>

\* ~SharedPtr(): releaseData(true), then the handle is gone
Destroy(h) ==
    /\ live[h]
    /\ LET r == releaseData(m_managementTable, m_data[h], TRUE) IN
       /\ m_data' = [m_data EXCEPT ![h] = r.data]
       /\ m_managementTable' = r.table
       /\ deleted' = Delete(deleted, r.del)
       /\ op' = Op("destroy", h, NoHandle, r.threw)
       /\ log' = Track(log, op')
    /\ live' = [live EXCEPT ![h] = FALSE]
    /\ UNCHANGED <<dynType, cvars>>

Next ==
    \/ \E x \in Objs, T \in Types : New(x, T)
    \/ \E h \in Handles, U \in Types, x \in Objs \cup {Null} : ConstructRaw(h, U, x)
    \/ \E h \in Handles, s \in Handles : CopyConstruct(h, s)
    \/ \E h \in Handles, s \in Handles : MoveConstruct(h, s)
    \/ \E h \in Handles, s \in Handles : ConvCopyConstruct(h, s)
    \/ \E h \in Handles, s \in Handles : ConvMoveConstruct(h, s)
    \/ \E d \in Handles, s \in Handles : CopyAssign(d, s)
    \/ \E d \in Handles, s \in Handles : MoveAssign(d, s)
    \/ \E d \in Handles, s \in Handles : ConvCopyAssign(d, s)
    \/ \E d \in Handles, s \in Handles : ConvMoveAssign(d, s)
    \/ \E h \in Handles : Release(h)
    \/ \E h \in Handles : Destroy(h)

Spec == Init /\ [][Next]_vars

(* ---------------------- scoped programs: SpecScen ---------------------- *)
(* Programs in the style of main: every object comes from MakeSharedPtr,    *)
(* handles are variables that are constructed, assigned and destroyed, and  *)
(* release() is never called.                                               *)

\* MakeSharedPtr<DataT>(args...): SharedPtr<DataT>{new DataT{...}}
MakeShared(h, x) ==
    /\ ~live[h]
    /\ FreeObj(x)
    /\ dynType' = [dynType EXCEPT ![x] = elemType(h)]
    /\ LET c == ctorRaw(m_managementTable, x) IN
       /\ m_data' = [m_data EXCEPT ![h] = c.data]
       /\ m_managementTable' = c.table
    /\ live' = [live EXCEPT ![h] = TRUE]
    /\ op' = OpRaw("make", h, x)
    /\ log' = Track(log, op')
    /\ UNCHANGED <<deleted, cvars>>

\* the handle variables of the program are hs, the objects it allocates os
InitScoped(hs) ==
    /\ m_data = [h \in hs |-> Null]
    /\ live = [h \in hs |-> FALSE]
    /\ m_managementTable = EmptyTable
    /\ dynType = [x \in Objs |-> "none"]
    /\ deleted = [x \in Objs |-> 0]
    /\ op = NoOp
    /\ log = <<>>
    /\ pc = [t \in Threads |-> "idle"]
    /\ cur = [t \in Threads |-> Idle]
    /\ hist = [t \in Threads |-> <<>>]
    /\ table0 = EmptyTable

NextScoped(hs, os) ==
    \/ \E h \in hs, x \in os : MakeShared(h, x)
    \/ \E h \in hs, U \in Types, x \in os \cup {Null} : ConstructRaw(h, U, x)
    \/ \E h \in hs, s \in hs : CopyConstruct(h, s)
    \/ \E h \in hs, s \in hs : MoveConstruct(h, s)
    \/ \E h \in hs, s \in hs : ConvCopyConstruct(h, s)
    \/ \E h \in hs, s \in hs : ConvMoveConstruct(h, s)
    \/ \E d \in hs, s \in hs : CopyAssign(d, s)
    \/ \E d \in hs, s \in hs : MoveAssign(d, s)
    \/ \E d \in hs, s \in hs : ConvCopyAssign(d, s)
    \/ \E d \in hs, s \in hs : ConvMoveAssign(d, s)
    \/ \E h \in hs : Destroy(h)

\* any scoped program over the handles and objects of Spec
SpecScoped == InitScoped(Handles) /\ [][NextScoped(Handles, Objs)]_vars

\* scoped programs with enough handle variables for the scenario scripts,
\* all on the one object the scripts allocate
SpecScen == InitScoped(ScenHandles) /\ [][NextScoped(ScenHandles, ScenObjs)]_vars

(* ------------------- the ledger alone: SpecLedger ---------------------- *)
(* Calls on SharedPtrDataManagementTable::GetInstance() itself, with any     *)
(* argument: the address of an object or nullptr. op records the call, its   *)
(* argument (raw), whether it threw and what it returned.                    *)

OpCall(k, x, t, r) == [kind |-> k, dst |-> NoHandle, src |-> NoHandle, threw |-> t,
                       raw |-> x, ret |-> r]

\* addData(data); counts are kept up to MaxCount
LedgerAdd(x) ==
    /\ getCount(m_managementTable, x) < MaxCount
    /\ LET r == addData(m_managementTable, x) IN
       /\ m_managementTable' = r.table
       /\ op' = OpCall("addData", x, r.threw, 0)
    /\ UNCHANGED <<hvars, ovars, log, cvars>>

\* removeData(data); returns 1 for true ("last"), 0 for false
LedgerRemove(x) ==
    /\ LET r == removeData(m_managementTable, x) IN
       /\ m_managementTable' = r.table
       /\ op' = OpCall("removeData", x, r.threw, IF r.last THEN 1 ELSE 0)
    /\ UNCHANGED <<hvars, ovars, log, cvars>>

\* getCount(data) const
LedgerGetCount(x) ==
    /\ LET r == ledgerGetCount(m_managementTable, x) IN
       op' = OpCall("getCount", x, r.threw, r.ret)
    /\ UNCHANGED <<hvars, m_managementTable, ovars, log, cvars>>

NextLedger ==
    \/ \E x \in Objs \cup {Null} : LedgerAdd(x)
    \/ \E x \in Objs \cup {Null} : LedgerRemove(x)
    \/ \E x \in Objs \cup {Null} : LedgerGetCount(x)

SpecLedger == Init /\ [][NextLedger]_vars

(* ---------------------- several threads: SpecConc ---------------------- *)
(* The ledger takes no lock (lines 36-69, 83-85): the calls a thread makes  *)
(* on m_managementTable (find, emplace, erase) and on an entry's            *)
(* std::atomic_size_t (load, ++, --) are the steps, and the steps of        *)
(* different threads interleave.  An iterator obtained by find is "valid"   *)
(* until another thread erases its entry; from then on it is "stale" and    *)
(* using it is undefined behaviour, modelled as a choice among the outcomes *)
(* a node-based table produces: the access lands in the freed node (no      *)
(* effect on the table, an arbitrary value read) or in the entry that was   *)
(* inserted for the same key since.                                         *)
(* A counter is kept as the two's-complement reading of its 64-bit value,   *)
(* so that 0 - 1 is -1 (SIZE_MAX) and "> 1" is the unsigned comparison.     *)

\* each handle variable belongs to one thread
owner(h) == ((h - 1) % NumThreads) + 1

\* a logic_error left ~SharedPtr (noexcept): std::terminate ends the process
Terminated == \E t \in Threads : pc[t] = "terminated"

\* thread t holds a completed handle on x
Holds(t, x) == \E h \in Handles : owner(h) = t /\ live[h] /\ m_data[h] = x

\* thread u is inside ~SharedPtr of a handle on x
DestroyInFlight(u, x) ==
    pc[u] \notin {"idle", "terminated"} /\ cur[u].kind = "destroy" /\ cur[u].data = x

\* thread u is inside SharedPtr(DataT* x) and holds no other handle on x
RawInFlight(u, x) ==
    /\ pc[u] \notin {"idle", "terminated"}
    /\ cur[u].kind = "constructRaw" /\ cur[u].data = x
    /\ ~Holds(u, x)

\* the states a single-threaded prefix leaves behind (C1 holds of them): some
\* objects allocated, some handles constructed, the ledger counting them
InitConc ==
    /\ dynType \in [Objs -> Types \cup {"none"}]
    /\ \A x \in Objs : dynType[x] = "none" => \A y \in Objs : y > x => dynType[y] = "none"
    /\ live \in [Handles -> BOOLEAN]
    /\ m_data \in [Handles -> Objs \cup {Null}]
    /\ \A h \in Handles :
           /\ ~live[h] => m_data[h] = Null
           /\ m_data[h] # Null =>
                  /\ dynType[m_data[h]] # "none"
                  /\ IsBaseOf(elemType(h), dynType[m_data[h]])
    /\ m_managementTable =
           [x \in {y \in Objs : \E h \in Handles : m_data[h] = y} |->
                Cardinality({h \in Handles : m_data[h] = x})]
    /\ table0 = m_managementTable
    /\ deleted = [x \in Objs |-> 0]
    /\ op = NoOp
    /\ log = <<>>
    /\ pc = [t \in Threads |-> "idle"]
    /\ cur = [t \in Threads |-> Idle]
    /\ hist = [t \in Threads |-> <<>>]

Running(k, h, data) == [kind |-> k, h |-> h, data |-> data, itr |-> "none", last |-> FALSE]
Done(k, h, data, last) == [kind |-> k, h |-> h, data |-> data, last |-> last]

CanStart(t) == ~Terminated /\ pc[t] = "idle" /\ Len(hist[t]) < MaxOps

\* entering a constructor with pointer data: m_data{data}; if (m_data) addData(m_data)
startCtor(t, h, kind, data) ==
    /\ m_data' = [m_data EXCEPT ![h] = data]
    /\ IF data = Null
       THEN /\ live' = [live EXCEPT ![h] = TRUE]
            /\ hist' = [hist EXCEPT ![t] = Append(@, Done(kind, h, Null, FALSE))]
            /\ UNCHANGED <<pc, cur>>
       ELSE /\ cur' = [cur EXCEPT ![t] = Running(kind, h, data)]
            /\ pc' = [pc EXCEPT ![t] = "add_find"]
            /\ UNCHANGED <<live, hist>>
    /\ UNCHANGED <<m_managementTable, ovars, op, log, table0>>

\* thread t enters SharedPtr<T>{U* x}; the pointer is valid for the whole call:
\* no other thread destroys a handle on x meanwhile, unless t holds one itself
StartConstructRaw(t, h, U, x) ==
    /\ CanStart(t)
    /\ owner(h) = t /\ ~live[h]
    /\ x # Null =>
           /\ Alive(x) /\ IsBaseOf(U, dynType[x])
           /\ Holds(t, x) \/ \A u \in Threads \ {t} : ~DestroyInFlight(u, x)
    /\ startCtor(t, h, "constructRaw",
                 castRaw(elemType(h), U, x, IF x = Null THEN "none" ELSE dynType[x]))

\* thread t enters SharedPtr(const SharedPtr<DataT>& s) on two of its handles
StartCopy(t, h, s) ==
    /\ CanStart(t)
    /\ owner(h) = t /\ owner(s) = t
    /\ ~live[h] /\ live[s]
    /\ elemType(h) = elemType(s)
    /\ startCtor(t, h, "copy", m_data[s])

\* thread t enters ~SharedPtr() of one of its handles: releaseData(true)
StartDestroy(t, h) ==
    /\ CanStart(t)
    /\ owner(h) = t /\ live[h]
    /\ \A u \in Threads \ {t} : ~RawInFlight(u, m_data[h])
    /\ IF m_data[h] = Null
       THEN /\ live' = [live EXCEPT ![h] = FALSE]
            /\ hist' = [hist EXCEPT ![t] = Append(@, Done("destroy", h, Null, FALSE))]
            /\ UNCHANGED <<pc, cur>>
       ELSE /\ cur' = [cur EXCEPT ![t] = Running("destroy", h, m_data[h])]
            /\ pc' = [pc EXCEPT ![t] = "rm_find"]
            /\ UNCHANGED <<live, hist>>
    /\ UNCHANGED <<m_data, m_managementTable, ovars, op, log, table0>>

\* the constructor returns: the handle exists
finishCtor(t) ==
    /\ live' = [live EXCEPT ![cur[t].h] = TRUE]
    /\ hist' = [hist EXCEPT ![t] = Append(@, Done(cur[t].kind, cur[t].h, cur[t].data, FALSE))]
    /\ pc' = [pc EXCEPT ![t] = "idle"]
    /\ cur' = [cur EXCEPT ![t] = Idle]
    /\ UNCHANGED <<m_data, ovars, op, log, table0>>

\* releaseData's tail and the end of the destructor: m_data = nullptr
finishDestroy(t, last) ==
    /\ m_data' = [m_data EXCEPT ![cur[t].h] = Null]
    /\ live' = [live EXCEPT ![cur[t].h] = FALSE]
    /\ hist' = [hist EXCEPT ![t] = Append(@, Done("destroy", cur[t].h, cur[t].data, last))]
    /\ pc' = [pc EXCEPT ![t] = "idle"]
    /\ cur' = [cur EXCEPT ![t] = Idle]
    /\ UNCHANGED <<dynType, op, log, table0>>

\* addData, line 41: findItr = m_managementTable.find(voidData)
AddFind(t) ==
    /\ ~Terminated /\ pc[t] = "add_find"
    /\ IF cur[t].data \in DOMAIN m_managementTable
       THEN /\ cur' = [cur EXCEPT ![t].itr = "valid"]
            /\ pc' = [pc EXCEPT ![t] = "add_inc"]
       ELSE /\ cur' = [cur EXCEPT ![t].itr = "end"]
            /\ pc' = [pc EXCEPT ![t] = "add_emplace"]
    /\ UNCHANGED <<hvars, m_managementTable, ovars, op, log, hist, table0>>

\* addData, line 44: m_managementTable.emplace(voidData, 1)
AddEmplace(t) ==
    /\ ~Terminated /\ pc[t] = "add_emplace"
    /\ m_managementTable' = emplace(m_managementTable, cur[t].data)
    /\ finishCtor(t)

\* addData, line 48: ++findItr->second
AddInc(t) ==
    /\ ~Terminated /\ pc[t] = "add_inc" /\ cur[t].itr = "valid"
    /\ m_managementTable' = [m_managementTable EXCEPT ![cur[t].data] = @ + 1]
    /\ finishCtor(t)

\* the same through a stale iterator
AddIncStale(t) ==
    /\ ~Terminated /\ pc[t] = "add_inc" /\ cur[t].itr = "stale"
    /\ \/ m_managementTable' = m_managementTable
       \/ /\ cur[t].data \in DOMAIN m_managementTable
          /\ m_managementTable' = [m_managementTable EXCEPT ![cur[t].data] = @ + 1]
    /\ finishCtor(t)

\* removeData, lines 55-59: find; logic_error when the identity is not managed
RmFind(t) ==
    /\ ~Terminated /\ pc[t] = "rm_find"
    /\ IF cur[t].data \in DOMAIN m_managementTable
       THEN /\ cur' = [cur EXCEPT ![t].itr = "valid"]
            /\ pc' = [pc EXCEPT ![t] = "rm_load"]
       ELSE /\ cur' = [cur EXCEPT ![t].itr = "end"]
            /\ pc' = [pc EXCEPT ![t] = "terminated"]
    /\ UNCHANGED <<hvars, m_managementTable, ovars, op, log, hist, table0>>

\* removeData, line 61: findItr->second.load() > 1
RmLoad(t) ==
    /\ ~Terminated /\ pc[t] = "rm_load" /\ cur[t].itr = "valid"
    /\ pc' = [pc EXCEPT ![t] =
                 IF GreaterThanOne(m_managementTable[cur[t].data])
                 THEN "rm_dec" ELSE "rm_erase"]
    /\ UNCHANGED <<hvars, m_managementTable, ovars, op, log, cur, hist, table0>>

\* the same through a stale iterator: any value is read
RmLoadStale(t) ==
    /\ ~Terminated /\ pc[t] = "rm_load" /\ cur[t].itr = "stale"
    /\ \E to \in {"rm_dec", "rm_erase"} : pc' = [pc EXCEPT ![t] = to]
    /\ UNCHANGED <<hvars, m_managementTable, ovars, op, log, cur, hist, table0>>

\* removeData, lines 63-64: --findItr->second; return false
RmDec(t) ==
    /\ ~Terminated /\ pc[t] = "rm_dec" /\ cur[t].itr = "valid"
    /\ m_managementTable' = [m_managementTable EXCEPT ![cur[t].data] = @ - 1]
    /\ deleted' = deleted
    /\ finishDestroy(t, FALSE)

\* the same through a stale iterator
RmDecStale(t) ==
    /\ ~Terminated /\ pc[t] = "rm_dec" /\ cur[t].itr = "stale"
    /\ \/ m_managementTable' = m_managementTable
       \/ /\ cur[t].data \in DOMAIN m_managementTable
          /\ m_managementTable' = [m_managementTable EXCEPT ![cur[t].data] = @ - 1]
    /\ deleted' = deleted
    /\ finishDestroy(t, FALSE)

\* every other iterator on the erased entry dangles from now on
invalidate(t, key) ==
    [u \in Threads |->
        IF u # t /\ cur[u].data = key /\ cur[u].itr = "valid"
        THEN [cur[u] EXCEPT !.itr = "stale"]
        ELSE IF u = t THEN [cur[u] EXCEPT !.last = TRUE] ELSE cur[u]]

\* removeData, lines 67-68: m_managementTable.erase(findItr); return true
RmErase(t) ==
    /\ ~Terminated /\ pc[t] = "rm_erase" /\ cur[t].itr = "valid"
    /\ m_managementTable' = erase(m_managementTable, cur[t].data)
    /\ cur' = invalidate(t, cur[t].data)
    /\ pc' = [pc EXCEPT ![t] = "rm_delete"]
    /\ UNCHANGED <<hvars, ovars, op, log, hist, table0>>

\* the same through a stale iterator
RmEraseStale(t) ==
    /\ ~Terminated /\ pc[t] = "rm_erase" /\ cur[t].itr = "stale"
    /\ \/ /\ m_managementTable' = m_managementTable
          /\ cur' = [cur EXCEPT ![t].last = TRUE]
       \/ /\ cur[t].data \in DOMAIN m_managementTable
          /\ m_managementTable' = erase(m_managementTable, cur[t].data)
          /\ cur' = invalidate(t, cur[t].data)
    /\ pc' = [pc EXCEPT ![t] = "rm_delete"]
    /\ UNCHANGED <<hvars, ovars, op, log, hist, table0>>

\* releaseData, lines 265-270: removeData returned true: delete m_data
RmDelete(t) ==
    /\ ~Terminated /\ pc[t] = "rm_delete"
    /\ deleted' = Delete(deleted, cur[t].data)
    /\ m_managementTable' = m_managementTable
    /\ finishDestroy(t, TRUE)

NextConc ==
    \/ \E t \in Threads, h \in Handles, U \in Types, x \in Objs \cup {Null} :
           StartConstructRaw(t, h, U, x)
    \/ \E t \in Threads, h \in Handles, s \in Handles : StartCopy(t, h, s)
    \/ \E t \in Threads, h \in Handles : StartDestroy(t, h)
    \/ \E t \in Threads : AddFind(t)
    \/ \E t \in Threads : AddEmplace(t)
    \/ \E t \in Threads : AddInc(t)
    \/ \E t \in Threads : AddIncStale(t)
    \/ \E t \in Threads : RmFind(t)
    \/ \E t \in Threads : RmLoad(t)
    \/ \E t \in Threads : RmLoadStale(t)
    \/ \E t \in Threads : RmDec(t)
    \/ \E t \in Threads : RmDecStale(t)
    \/ \E t \in Threads : RmErase(t)
    \/ \E t \in Threads : RmEraseStale(t)
    \/ \E t \in Threads : RmDelete(t)

SpecConc == InitConc /\ [][NextConc]_vars

(* ----------------------- claims checked on SpecConc -------------------- *)

AllIdle == \A t \in Threads : pc[t] = "idle"

\* thread t ran exactly one operation, a destruction of a handle on x
OnlyDestroyed(t, x) ==
    Len(hist[t]) = 1 /\ hist[t][1].kind = "destroy" /\ hist[t][1].data = x

\* thread t ran exactly one operation, a construction that registered x
OnlyRegistered(t, x) ==
    Len(hist[t]) = 1 /\ hist[t][1].kind \in {"constructRaw", "copy"} /\ hist[t][1].data = x

\* thread t ran nothing
Untouched(t) == hist[t] = <<>> /\ pc[t] = "idle"

\* C3: two threads hold the only two handles on x (count 2) and each destroys
\* its handle: whatever the interleaving, exactly one of the two removeData
\* calls returns "last" and x is deleted exactly once.
C3_ExactlyOneLastOwner ==
    \A x \in Objs, t1 \in Threads, t2 \in Threads :
        (/\ t1 # t2
         /\ getCount(table0, x) = 2
         /\ AllIdle
         /\ OnlyDestroyed(t1, x) /\ OnlyDestroyed(t2, x)
         /\ \A u \in Threads \ {t1, t2} : Untouched(u))
        => /\ hist[t1][1].last # hist[t2][1].last
           /\ deleted[x] = 1

\* a live non-null handle never targets a deleted object
NoUseAfterFree ==
    \A h \in Handles : (live[h] /\ m_data[h] # Null) => deleted[m_data[h]] = 0

\* delete is applied to an object at most once
NoDoubleDelete == \A x \in Objs : deleted[x] <= 1

\* C4: under every interleaving of constructions from a raw pointer, copies
\* and destructions no live non-null handle targets a deleted object, no
\* object is deleted twice, and once the operations are complete the count of
\* each object is the one a sequential run of them leaves: the number of live
\* handles on it.
C4_NoUseAfterFreeSequentialCount ==
    /\ NoUseAfterFree
    /\ NoDoubleDelete
    /\ AllIdle => \A x \in Objs :
           getCount(m_managementTable, x) = Cardinality(Owners(x))

\* C5: two threads register the same identity x, known to the ledger or not:
\* after both addData calls the count of x is 2 higher than before.
C5_NoLostRegistration ==
    \A x \in Objs, t1 \in Threads, t2 \in Threads :
        (/\ t1 # t2
         /\ AllIdle
         /\ OnlyRegistered(t1, x) /\ OnlyRegistered(t2, x)
         /\ \A u \in Threads \ {t1, t2} : Untouched(u))
        => getCount(m_managementTable, x) = getCount(table0, x) + 2

\* The half of C5 that the code keeps: when x is known to the ledger at the
\* start both threads take the atomic increment and none is lost.
KnownIdentityNoLostRegistration ==
    \A x \in Objs, t1 \in Threads, t2 \in Threads :
        (/\ t1 # t2
         /\ x \in DOMAIN table0
         /\ AllIdle
         /\ OnlyRegistered(t1, x) /\ OnlyRegistered(t2, x)
         /\ \A u \in Threads \ {t1, t2} : Untouched(u))
        => getCount(m_managementTable, x) = getCount(table0, x) + 2

(* ------------------------- claims checked on Spec ---------------------- *)

AssignKinds == {"copyAssign", "moveAssign", "convCopyAssign", "convMoveAssign"}

\* C1: in every reachable state the ledger's count for each object equals the
\* number of live non-null handles targeting it, and the ledger has an entry
\* for the object exactly when that number is at least 1.
C1_LedgerCountsOwners ==
    \A x \in Objs :
        /\ getCount(m_managementTable, x) = Cardinality(Owners(x))
        /\ x \in DOMAIN m_managementTable <=> Cardinality(Owners(x)) >= 1

\* two co-owners next to a live handle that gave its target up
C1_Witness ==
    \E x \in Objs, h \in Handles :
        /\ Cardinality(Owners(x)) = 2
        /\ live[h] /\ m_data[h] = Null
        /\ op.kind \in {"release", "moveAssign", "moveConstruct"}

\* the step gives up a handle on x by destruction or by overwriting it
GivesUp(x) ==
    /\ op'.kind \in AssignKinds \cup {"destroy"}
    /\ ~(op'.kind \in AssignKinds /\ op'.dst = op'.src)
    /\ m_data[op'.dst] = x

\* C2: an object is deleted at most once; a step deletes it exactly when the
\* step destroys or overwrites a handle on it while its count is 1; a
\* release() step deletes nothing.
C2_DeletedOnceByLastOwner ==
    [][\A x \in Objs :
        /\ deleted'[x] <= 1
        /\ deleted'[x] \in {deleted[x], deleted[x] + 1}
        /\ deleted'[x] # deleted[x] <=>
               GivesUp(x) /\ getCount(m_managementTable, x) = 1
        /\ op'.kind = "release" => deleted' = deleted]_vars

\* the last owner was destroyed and the object is deleted; another object was
\* released by its last owner and is not
C2_Witness ==
    /\ op.kind = "destroy"
    /\ \E x \in Objs : deleted[x] = 1 /\ Owners(x) = {}
    /\ \E y \in Objs : Alive(y) /\ Owners(y) = {} /\ y \notin DOMAIN m_managementTable

\* C6: move-construction, move-assignment and converting move-assignment from
\* a source other than the destination leave the source null, give the
\* destination the source's former target and leave that target's count as it
\* was (when the destination did not target it already); a move-assignment
\* lowers the count of the destination's former target by one.
C6_MoveTransfers ==
    [][(op'.kind \in {"moveConstruct", "moveAssign", "convMoveAssign"}
        /\ op'.dst # op'.src) =>
       LET d == op'.dst
           s == op'.src
           x == m_data[s]
           o == m_data[d]
       IN /\ m_data'[s] = Null
          /\ m_data'[d] = x
          /\ (x # Null /\ o # x) =>
                 getCount(m_managementTable', x) = getCount(m_managementTable, x)
          /\ (op'.kind # "moveConstruct" /\ o # Null) =>
                 getCount(m_managementTable', o) = getCount(m_managementTable, o) - 1]_vars

\* a converting move-assignment took over a target that has a second owner
C6_Witness ==
    /\ op.kind = "convMoveAssign"
    /\ m_data[op.src] = Null
    /\ m_data[op.dst] # Null
    /\ getCount(m_managementTable, m_data[op.dst]) = 2

\* C7: converting move-construction leaves the ledger as it was and the source
\* null, the new handle holding the source's former target.
C7_ConvMoveConstructTransfers ==
    [][op'.kind = "convMoveConstruct" =>
       /\ m_data'[op'.src] = Null
       /\ m_data'[op'.dst] = m_data[op'.src]
       /\ m_managementTable' = m_managementTable]_vars

\* C8 as stated: copy-construction and converting copy-construction from a
\* non-null source make the new handle a co-owner (count one higher, source
\* unchanged); from a null source the new handle is null and the ledger
\* unchanged.
C8_CopyConstructCoOwns ==
    [][op'.kind \in {"copyConstruct", "convCopyConstruct"} =>
       LET d == op'.dst
           s == op'.src
           x == m_data[s]
       IN /\ m_data'[s] = x
          /\ x # Null =>
                 /\ m_data'[d] = x
                 /\ getCount(m_managementTable', x) = getCount(m_managementTable, x) + 1
          /\ x = Null =>
                 /\ m_data'[d] = Null
                 /\ m_managementTable' = m_managementTable]_vars

\* the object *x is an instance of handle h's element type
PassesCast(h, x) == x # Null /\ IsBaseOf(elemType(h), dynType[x])

\* C8 amended: the same, for a non-null source whose object is an instance of
\* the new handle's element type; from a null source, or when the downcast
\* fails, the new handle is null and the ledger unchanged.
C8_CopyConstructCoOwnsIfCastPasses ==
    [][op'.kind \in {"copyConstruct", "convCopyConstruct"} =>
       LET d == op'.dst
           s == op'.src
           x == m_data[s]
       IN /\ m_data'[s] = x
          /\ PassesCast(d, x) =>
                 /\ m_data'[d] = x
                 /\ getCount(m_managementTable', x) = getCount(m_managementTable, x) + 1
          /\ ~PassesCast(d, x) =>
                 /\ m_data'[d] = Null
                 /\ m_managementTable' = m_managementTable]_vars

\* a converting copy-construction made a third co-owner
C8_Witness ==
    /\ op.kind = "convCopyConstruct"
    /\ m_data[op.dst] # Null
    /\ m_data[op.dst] = m_data[op.src]
    /\ getCount(m_managementTable, m_data[op.dst]) = 3

\* C9: copy-assignment d = s, s non-null and another handle than d: afterwards
\* both target s's object and s is unchanged; when d's former target o is
\* another object its count is one lower, it is deleted iff its count was 1,
\* and the new target's count is one higher; when d and s co-owned the object
\* it is not deleted and its count is unchanged.
C9_CopyAssign ==
    [][(op'.kind \in {"copyAssign", "convCopyAssign"} /\ op'.dst # op'.src
        /\ m_data[op'.src] # Null) =>
       LET d == op'.dst
           s == op'.src
           x == m_data[s]
           o == m_data[d]
       IN /\ ~op'.threw
          /\ m_data'[s] = x
          /\ m_data'[d] = x
          /\ deleted'[x] = deleted[x]
          /\ o = x => getCount(m_managementTable', x) = getCount(m_managementTable, x)
          /\ o # x => getCount(m_managementTable', x) = getCount(m_managementTable, x) + 1
          /\ (o # x /\ o # Null) =>
                 /\ getCount(m_managementTable', o) = getCount(m_managementTable, o) - 1
                 /\ deleted'[o] # deleted[o] <=> getCount(m_managementTable, o) = 1]_vars

\* a copy-assignment overwrote the last owner of an object, now deleted, with
\* a target that has two owners since
C9_Witness ==
    /\ op.kind = "copyAssign"
    /\ op.dst # op.src
    /\ m_data[op.dst] # Null
    /\ m_data[op.dst] = m_data[op.src]
    /\ getCount(m_managementTable, m_data[op.dst]) = 2
    /\ \E o \in Objs : deleted[o] = 1

\* C10: assigning a handle to itself, by copy or by move, changes nothing: the
\* handle keeps its target, the ledger is unchanged and nothing is deleted.
C10_SelfAssignNoOp ==
    [][(op'.kind \in AssignKinds /\ op'.dst = op'.src) =>
       /\ ~op'.threw
       /\ UNCHANGED <<m_data, live, m_managementTable, deleted>>]_vars

\* the sole owner of an object was assigned to itself
C10_Witness ==
    /\ op.kind \in {"copyAssign", "moveAssign"}
    /\ op.dst = op.src
    /\ m_data[op.dst] # Null
    /\ getCount(m_managementTable, m_data[op.dst]) = 1
    /\ deleted[m_data[op.dst]] = 0


\* the step puts a non-null subtype source (raw pointer or handle) into a
\* supertype handle
IsUpcast ==
    /\ elemType(op'.dst) = "Base"
    /\ \/ op'.kind = "constructRaw" /\ op'.raw # Null /\ dynType[op'.raw] = "Derived"
       \/ /\ op'.kind \in {"convCopyConstruct", "convMoveConstruct",
                           "convCopyAssign", "convMoveAssign"}
          /\ elemType(op'.src) = "Derived"
          /\ m_data[op'.src] # Null

\* the object an upcast step takes its target from
UpcastSource == IF op'.kind = "constructRaw" THEN op'.raw ELSE m_data[op'.src]

\* the live handles of element type T on x
OwnersOfType(x, T) == {h \in Owners(x) : elemType(h) = T}

\* the same after the step
OwnersOfTypeAfter(x, T) ==
    {h \in Handles : live'[h] /\ m_data'[h] = x /\ elemType(h) = T}

\* C11: an upcast construction or assignment from a non-null source does not
\* fail and leaves the supertype handle on the source's object; after it the
\* one ledger entry of the object counts the live handles of both element
\* types together; and in every step an object is deleted at most once and
\* only when no handle of either type is left on it.
C11_UpcastCoOwns ==
    [][/\ IsUpcast =>
           LET x == UpcastSource IN
           /\ ~op'.threw
           /\ m_data'[op'.dst] = x
           /\ x \in DOMAIN m_managementTable'
           /\ m_managementTable'[x] =
                  Cardinality(OwnersOfTypeAfter(x, "Base"))
                  + Cardinality(OwnersOfTypeAfter(x, "Derived"))
       /\ \A x \in Objs : deleted'[x] # deleted[x] =>
              /\ deleted'[x] = 1
              /\ Owners(x) # {}
              /\ Owners(x)' = {}]_vars

\* a converting copy-assignment made a supertype handle the third owner of an
\* object next to a subtype handle
C11_Witness ==
    /\ op.kind = "convCopyAssign"
    /\ \E x \in Objs :
         /\ m_data[op.dst] = x /\ m_data[op.src] = x
         /\ OwnersOfType(x, "Derived") # {}
         /\ Cardinality(OwnersOfType(x, "Base")) = 2
         /\ m_managementTable[x] = 3

\* the step constructs a subtype handle from a non-null supertype source whose
\* object is not an instance of the subtype
IsFailedDowncast ==
    /\ elemType(op'.dst) = "Derived"
    /\ \/ op'.kind = "constructRaw" /\ op'.raw # Null /\ dynType[op'.raw] = "Base"
       \/ /\ op'.kind \in {"convCopyConstruct", "convMoveConstruct"}
          /\ m_data[op'.src] # Null
          /\ dynType[m_data[op'.src]] = "Base"

\* C12: a downcast construction whose runtime type check fails yields a null
\* handle and changes nothing else: the ledger, the deleted objects and every
\* other handle, the source included, are as before.
C12_FailedDowncastIsNull ==
    [][IsFailedDowncast =>
       /\ live'[op'.dst]
       /\ m_data'[op'.dst] = Null
       /\ m_managementTable' = m_managementTable
       /\ deleted' = deleted
       /\ \A h \in Handles \ {op'.dst} : m_data'[h] = m_data[h] /\ live'[h] = live[h]]_vars

\* a subtype handle was constructed null from a supertype handle that still
\* owns its supertype object alone
C12_Witness ==
    /\ op.kind = "convCopyConstruct"
    /\ elemType(op.dst) = "Derived"
    /\ m_data[op.dst] = Null
    /\ m_data[op.src] # Null
    /\ dynType[m_data[op.src]] = "Base"
    /\ m_managementTable[m_data[op.src]] = 1

\* C13: release() does not fail, leaves its handle null and every other handle
\* as it was, and deletes nothing; on a non-null handle the count of its
\* target is one lower, the entry gone when the count was 1, and no other
\* entry changes; on a null handle the ledger is unchanged.
C13_ReleaseNeverDeletes ==
    [][op'.kind = "release" =>
       LET h == op'.dst
           x == m_data[h]
       IN /\ ~op'.threw
          /\ m_data' = [m_data EXCEPT ![h] = Null]
          /\ live' = live
          /\ deleted' = deleted
          /\ x = Null => m_managementTable' = m_managementTable
          /\ x # Null =>
                 /\ getCount(m_managementTable', x) = getCount(m_managementTable, x) - 1
                 /\ x \in DOMAIN m_managementTable' <=> m_managementTable[x] > 1
                 /\ \A y \in Objs \ {x} :
                        /\ y \in DOMAIN m_managementTable' <=> y \in DOMAIN m_managementTable
                        /\ getCount(m_managementTable', y) = getCount(m_managementTable, y)]_vars

\* the last owner of an object released it: the handle is null, the entry is
\* gone and the object is not deleted
C13_Witness ==
    /\ op.kind = "release"
    /\ live[op.dst] /\ m_data[op.dst] = Null
    /\ \E x \in Objs :
         /\ Alive(x)
         /\ Owners(x) = {}
         /\ x \notin DOMAIN m_managementTable
         /\ \E y \in Objs \ {x} : y \in DOMAIN m_managementTable

\* the call is a register or deregister that the contract rejects: the
\* identity is null, or it is a deregister of an identity with no entry
IsRejectedCall ==
    /\ op'.kind \in {"addData", "removeData"}
    /\ \/ op'.raw = Null
       \/ op'.kind = "removeData" /\ op'.raw \notin DOMAIN m_managementTable

\* C14: addData and removeData throw when given a null identity, removeData
\* throws when the identity has no entry, and a call that throws leaves the
\* table as it was.
C14_LedgerRejects ==
    [][/\ IsRejectedCall => op'.threw
       /\ (op'.kind \in {"addData", "removeData"} /\ op'.threw) =>
              m_managementTable' = m_managementTable]_vars

\* a deregister of an unregistered identity threw while another identity is
\* registered
C14_Witness ==
    /\ op.kind = "removeData"
    /\ op.threw
    /\ op.raw # Null
    /\ op.raw \notin DOMAIN m_managementTable
    /\ \E y \in Objs : y \in DOMAIN m_managementTable /\ m_managementTable[y] = 2

\* C15: the ledger's count query never throws: it returns the count of a
\* registered identity and 0 for an unregistered or null one, and leaves the
\* table as it was.
C15_CountQueryNeverFails ==
    [][op'.kind = "getCount" =>
       /\ ~op'.threw
       /\ op'.ret = IF op'.raw \in DOMAIN m_managementTable
                    THEN m_managementTable[op'.raw] ELSE 0
       /\ m_managementTable' = m_managementTable]_vars

\* C19: a copy-assignment d = s from a null source s, another handle than d,
\* does not throw; d's former target is released as by any assignment (count
\* one lower, deleted iff d was its last owner), d is null afterwards, s is
\* unchanged and nothing is registered.
C19_CopyAssignFromNull ==
    [][(op'.kind \in {"copyAssign", "convCopyAssign"} /\ op'.dst # op'.src
        /\ m_data[op'.src] = Null) =>
       LET d == op'.dst
           s == op'.src
           o == m_data[d]
       IN /\ ~op'.threw
          /\ m_data'[d] = Null
          /\ m_data'[s] = Null
          /\ o # Null =>
                 /\ getCount(m_managementTable', o) = getCount(m_managementTable, o) - 1
                 /\ deleted'[o] # deleted[o] <=> getCount(m_managementTable, o) = 1
          /\ \A y \in Objs \ {o} :
                 getCount(m_managementTable', y) = getCount(m_managementTable, y)]_vars

\* the step constructs a handle from a raw pointer to an object that other
\* handles own already
IsSecondRawConstruct ==
    /\ op'.kind = "constructRaw"
    /\ op'.raw # Null
    /\ op'.raw \in DOMAIN m_managementTable
    /\ PassesCast(op'.dst, op'.raw)

\* the run so far is the script sc up to its n-th operation
AtStep(sc, n) == log = SubSeq(sc, 1, n)

\* C20: a handle constructed from a raw pointer to an object that is owned
\* already becomes a co-owner, the count of the address one higher and the
\* earlier handles unchanged; after MakeSharedPtr and a second construction
\* from the same raw pointer the count is 2; destroying a handle on an object
\* whose count is 2 or more does not delete it, destroying the one whose
\* count is 1 deletes it; no object is deleted twice and no live non-null
\* handle targets a deleted object.
C20_RawCoOwners ==
    [][/\ IsSecondRawConstruct =>
           LET x == op'.raw IN
           /\ m_data' = [m_data EXCEPT ![op'.dst] = x]
           /\ m_managementTable'[x] = m_managementTable[x] + 1
           /\ deleted' = deleted
       /\ log' = ScriptRawTwice => m_managementTable'[1] = 2
       /\ (op'.kind = "destroy" /\ m_data[op'.dst] # Null) =>
           LET x == m_data[op'.dst] IN
           /\ ~op'.threw
           /\ m_managementTable[x] >= 2 =>
                  deleted'[x] = deleted[x] /\ m_managementTable'[x] = m_managementTable[x] - 1
           /\ m_managementTable[x] = 1 =>
                  deleted'[x] = 1 /\ x \notin DOMAIN m_managementTable'
       /\ \A x \in Objs : deleted'[x] <= 1
       /\ \A h \in ScenHandles :
              (live'[h] /\ m_data'[h] # Null) => deleted'[m_data'[h]] = 0]_vars

\* the two handles constructed from the same raw pointer were destroyed one
\* after the other and the object is deleted
C20_Witness ==
    /\ Len(log) = 4
    /\ SubSeq(log, 1, 2) = ScriptRawTwice
    /\ ~live[1] /\ ~live[3]
    /\ deleted[1] = 1
    /\ 1 \notin DOMAIN m_managementTable

\* C16: along A = MakeSharedPtr, B{A}, C{std::move(B)}, ~A, ~C on object 1:
\* the count reads 1, 2, 2 (B null), 1 (object not deleted), then the entry is
\* gone and the object deleted once; after that dereferencing B throws and
\* B's use count is 0.
C16_CopyMoveScenario ==
    /\ AtStep(ScriptCopyMove, 1) =>
           m_data[1] = 1 /\ getUseCount(m_managementTable, m_data[1]) = 1 /\ deleted[1] = 0
    /\ AtStep(ScriptCopyMove, 2) =>
           /\ m_data[3] = 1
           /\ getUseCount(m_managementTable, m_data[1]) = 2
           /\ getUseCount(m_managementTable, m_data[3]) = 2
           /\ deleted[1] = 0
    /\ AtStep(ScriptCopyMove, 3) =>
           /\ live[3] /\ m_data[3] = Null
           /\ m_data[5] = 1
           /\ getUseCount(m_managementTable, m_data[5]) = 2
           /\ deleted[1] = 0
    /\ AtStep(ScriptCopyMove, 4) =>
           /\ getUseCount(m_managementTable, m_data[5]) = 1
           /\ deleted[1] = 0
    /\ AtStep(ScriptCopyMove, 5) =>
           /\ 1 \notin DOMAIN m_managementTable
           /\ getCount(m_managementTable, 1) = 0
           /\ deleted[1] = 1
           /\ live[3]
           /\ throwIfInvalidAccess(m_data[3])
           /\ getUseCount(m_managementTable, m_data[3]) = 0

\* the whole script has run: B is the only handle in scope
C16_Witness ==
    /\ AtStep(ScriptCopyMove, 5)
    /\ live[3] /\ ~live[1] /\ ~live[5]
    /\ deleted[1] = 1

\* the run so far is the upcast script with the given operator=, followed by
\* destructors
AfterUpcast(assign) ==
    /\ Len(log) >= Len(ScriptUpcast(assign))
    /\ Follows(log, [head |-> ScriptUpcast(assign), scope |-> UpcastHandles \cup {2}])

\* none of the handles hs is in scope any more
AllGone(hs) == \A h \in hs : ~live[h]

\* C17 as stated: whichever operator= assigns the subtype handle, after the
\* three copies the count reads 4, and the object is deleted exactly when the
\* supertype handle and its three copies are gone.
C17_UpcastCountsFour ==
    \A assign \in {"convCopyAssign", "convMoveAssign"} :
        /\ log = ScriptUpcast(assign) => getCount(m_managementTable, 1) = 4
        /\ AfterUpcast(assign) => (deleted[1] = 1 <=> AllGone(UpcastHandles))

\* C17 amended: when the subtype handle is moved into the supertype handle
\* the count after the three copies reads 4 and the object is deleted exactly
\* when the supertype handle and its three copies are gone; when it is
\* copy-assigned it stays an owner, the count reads 5 and the object is
\* deleted exactly when all five handles are gone.
C17_UpcastCountsOwners ==
    /\ log = ScriptUpcast("convMoveAssign") =>
           /\ getCount(m_managementTable, 1) = 4
           /\ live[2] /\ m_data[2] = Null
    /\ AfterUpcast("convMoveAssign") =>
           /\ deleted[1] = 1 <=> AllGone(UpcastHandles)
           /\ getCount(m_managementTable, 1) =
                  Cardinality({h \in UpcastHandles : live[h]})
    /\ log = ScriptUpcast("convCopyAssign") => getCount(m_managementTable, 1) = 5
    /\ AfterUpcast("convCopyAssign") =>
           /\ deleted[1] = 1 <=> AllGone(UpcastHandles \cup {2})
           /\ getCount(m_managementTable, 1) =
                  Cardinality({h \in UpcastHandles \cup {2} : live[h]})

\* the subtype handle was moved into the supertype handle; that handle and
\* its three copies are gone, the moved-from handle is still in scope, and
\* the object is deleted
C17_Witness ==
    /\ AfterUpcast("convMoveAssign")
    /\ Len(log) = Len(ScriptUpcast("convMoveAssign")) + 4
    /\ AllGone(UpcastHandles)
    /\ live[2]
    /\ deleted[1] = 1

\* C18: in a scoped program (no release(), every object from MakeSharedPtr)
\* no object is deleted twice, and whenever no handle is in scope the ledger
\* is empty and every object that was allocated has been deleted once.
C18_NoLeakAtQuiescence ==
    /\ \A x \in Objs : deleted[x] <= 1
    /\ AllGone(Handles) =>
           /\ m_managementTable = EmptyTable
           /\ \A x \in Objs : dynType[x] # "none" => deleted[x] = 1

\* the last handle was destroyed after two objects had been managed: both
\* are deleted
C18_Witness ==
    /\ op.kind = "destroy"
    /\ AllGone(Handles)
    /\ m_managementTable = EmptyTable
    /\ \A x \in Objs : dynType[x] # "none" /\ deleted[x] = 1

=============================================================================
